---- MODULE Spec2Model ----
(***************************************************************************)
(* Election and military reserves analysis (src/main_script.py).           *)
(*                                                                         *)
(* The script is one straight-line pipeline: left join of the vote table   *)
(* with the reserves table, vote split, bloc totals, de-duplication, the   *)
(* cleaner (mask, dropna rows, dropna columns), the derived ratios, and    *)
(* then, once per bloc, cut / sort / cumsum / groupby-max / normalise.     *)
(* Each statement (or block of column assignments) is one action; pc is    *)
(* the position in the script.                                             *)
(*                                                                         *)
(* Numbers.  Vote cells are floats in the script once the split has run.   *)
(* Here a vote cell is a fixed-point integer in units of 1/SplitScale      *)
(* vote, and the split ratio is a multiple of 1/SplitScale: for those      *)
(* (dyadic) ratios every product and sum of the script is exact in IEEE    *)
(* binary64, so the integers are the script's values.  Quotients are kept  *)
(* as fractions num/den.  The one place where binary64 rounding changes a  *)
(* bin is recorded in OneMinus below.                                      *)
(***************************************************************************)
EXTENDS Integers, Sequences, FiniteSets, TLC

\* pandas' missing-value marker (NaN) in an integer-valued cell.  Every real
\* cell value of the inputs is a count, hence >= 0.
NaN == -1

\* Fixed-point unit of vote cells and of SAAR_RATIO_FROM_GANTZ: a ratio r is
\* held as the integer r * SplitScale.
SplitScale == 4

\* ------------------------------------------------------------------ bounds
MaxRows == 2        \* rows of the vote table (and distinct locality keys)
MaxResRows == 2     \* rows of the reserves table
MaxDays == 2        \* largest reserve_days value of a reserves row

Keys == 1..MaxRows

\* ------------------------------------------------------- party affiliations
\* coalition / opposition dictionaries' keys (Hebrew ballot letters
\* transliterated): the columns summed into 'coal' and 'opp'.
coalition == {"mhl", "shs", "g", "t", "b", "saar"}
opposition == {"pe", "kn", "l", "am", "vm", "emt", "mrz"}

\* Party columns of the vote file: every bloc member but the synthetic 'saar'.
VoteParties == (coalition \ {"saar"}) \cup opposition

\* Columns of the vote file: the parties and the valid-votes count.
VoteColumns == VoteParties \cup {"ksherim"}

\* ------------------------------------------------------------------ inputs
\* Sum of the cells of row function c over the columns cs, NaN skipped
\* (DataFrame.sum(axis=1) has skipna=True).
RECURSIVE SumCols(_, _)
SumCols(c, cs) ==
    IF cs = {} THEN 0
    ELSE LET x == CHOOSE y \in cs : TRUE
         IN  (IF c[x] = NaN THEN 0 ELSE c[x]) + SumCols(c, cs \ {x})

\* The vote rows the localities are drawn from (whole votes per party; the
\* parties not named have 0 votes).
ProfileVotes ==
    { ("mhl" :> 12 @@ "shs" :> 5 @@ "g" :> 3 @@ "pe" :> 1),
      ("mhl" :> 1 @@ "pe" :> 12 @@ "kn" :> 8),
      ("mhl" :> 19 @@ "l" :> 1),
      ("mhl" :> 80 @@ "pe" :> 20),
      ("t" :> 20 @@ "emt" :> 80),
      ("am" :> 3 @@ "mrz" :> NaN),
      ("b" :> 1 @@ "kn" :> 4) }

\* A vote-file row's cells: party votes in fixed point, valid votes as a count.
VoteCells(f) ==
    LET whole == [p \in VoteParties |-> IF p \in DOMAIN f THEN f[p] ELSE 0]
    IN  [col \in VoteColumns |->
            IF col = "ksherim" THEN SumCols(whole, VoteParties)
            ELSE IF whole[col] = NaN THEN NaN
            ELSE whole[col] * SplitScale]

Profiles == { VoteCells(f) : f \in ProfileVotes }

\* Locality keys are names: a vote table is taken with its keys numbered in
\* order of first appearance.
FirstAppearance(ks) ==
    \A i \in 1..Len(ks) :
        \/ \E j \in 1..(i - 1) : ks[j] = ks[i]
        \/ ks[i] = Cardinality({ ks[j] : j \in 1..(i - 1) }) + 1

VotingTables ==
    UNION { { [i \in 1..n |-> [key |-> ks[i], c |-> ps[i]]] :
                ks \in { k \in [1..n -> Keys] : FirstAppearance(k) },
                ps \in [1..n -> Profiles] } : n \in 1..MaxRows }

\* The order of reserves rows with different keys does not show in a left
\* join; reserves tables are taken with their keys in non-decreasing order.
ReserveTables ==
    UNION { { t \in [1..n -> [key : Keys, reserve_days : 0..MaxDays]] :
                \A i \in 1..(n - 1) : t[i].key <= t[i + 1].key } :
            n \in 0..MaxResRows }

\* The split ratios tried: the script's 0.00, and 0.5 and 1.0.
SplitRatios == {0, 2, 4}

VARIABLES
    voting,                 \* expc.csv, indexed by locality
    reserves,               \* reserve_data.csv, indexed by city
    SAAR_RATIO_FROM_GANTZ,  \* the split ratio, in units of 1/SplitScale
    data,                   \* the joined table: [columns, rows]
    data_analysis,          \* the analysis table: [columns, rows]
    results,                \* party -> (bin label -> num/den)
    party,                  \* the loop variable of the per-bloc loop
    pc                      \* position in the script

vars == <<voting, reserves, SAAR_RATIO_FROM_GANTZ, data, data_analysis,
          results, party, pc>>

EmptyTable == [columns |-> {}, rows |-> <<>>]

Init ==
    /\ voting \in VotingTables
    /\ reserves \in ReserveTables
    /\ SAAR_RATIO_FROM_GANTZ \in SplitRatios
    /\ data = EmptyTable
    /\ data_analysis = EmptyTable
    /\ results = <<>>
    /\ party = "coal"
    /\ pc = "merge"

\* ------------------------------------------------------- line 41: pd.merge
\* The reserves rows whose index equals key k, in file order.
RECURSIVE RightMatches(_, _)
RightMatches(k, j) ==
    IF j > Len(reserves) THEN <<>>
    ELSE (IF reserves[j].key = k THEN <<j>> ELSE <<>>) \o RightMatches(k, j + 1)

\* The join indexers of the left join: one pair <<left row, right row>> per
\* output row, left rows in their order, each with its matches in the right
\* table's order; right row 0 stands for "no match" (pandas' -1).
RECURSIVE JoinIndexers(_)
JoinIndexers(i) ==
    IF i > Len(voting) THEN <<>>
    ELSE LET m == RightMatches(voting[i].key, 1)
         IN  (IF m = <<>> THEN << <<i, 0>> >>
              ELSE [n \in 1..Len(m) |-> <<i, m[n]>>]) \o JoinIndexers(i + 1)

\* how='left': every vote row is kept; reserve_days is NaN without a match.
MergedRow(ix) ==
    [key |-> voting[ix[1]].key,
     c   |-> voting[ix[1]].c @@
             ("reserve_days" :>
                 IF ix[2] = 0 THEN NaN ELSE reserves[ix[2]].reserve_days)]

\* The output rows are taken in the documented order of a left join (the
\* left table's key order); nothing after line 72 reads the order of rows
\* with different keys before the rows are sorted.
Merge ==
    /\ pc = "merge"
    /\ LET ix == JoinIndexers(1)
       IN  data' = [columns |-> VoteColumns \cup {"reserve_days"},
                    rows    |-> [n \in 1..Len(ix) |-> MergedRow(ix[n])]]
    /\ pc' = "split"
    /\ UNCHANGED <<voting, reserves, SAAR_RATIO_FROM_GANTZ, data_analysis,
                   results, party>>

\* ------------------------------------------- lines 63-65: the 'saar' split
\* column * ratio on a fixed-point cell; NaN stays NaN.
Times(x, r) == IF x = NaN THEN NaN ELSE (x * r) \div SplitScale

\* Mutant: line 65 left out, the designated party keeps all its votes.
SplitCells_KeepsKn(c) ==
    [col \in DOMAIN c \cup {"saar"} |->
        IF col = "saar" THEN Times(c["kn"], SAAR_RATIO_FROM_GANTZ) ELSE c[col]]

\* data['saar'] = data['kn'] * r ; data['kn'] = data['kn'] * (1 - r)
SplitCells(c) ==
    [col \in DOMAIN c \cup {"saar"} |->
        IF col = "saar" THEN Times(c["kn"], SAAR_RATIO_FROM_GANTZ)
        ELSE IF col = "kn" THEN Times(c["kn"], SplitScale - SAAR_RATIO_FROM_GANTZ)
        ELSE c[col]]

Split ==
    /\ pc = "split"
    /\ data' = [columns |-> data.columns \cup {"saar"},
                rows    |-> [n \in 1..Len(data.rows) |->
                                [data.rows[n] EXCEPT !.c = SplitCells(@)]]]
    /\ pc' = "totals"
    /\ UNCHANGED <<voting, reserves, SAAR_RATIO_FROM_GANTZ, data_analysis,
                   results, party>>

\* --------------------------------------------- lines 68-69: the bloc totals
TotalCells(c) ==
    ("coal" :> SumCols(c, coalition) @@ "opp" :> SumCols(c, opposition)) @@ c

BlocTotals ==
    /\ pc = "totals"
    /\ coalition \cup opposition \subseteq data.columns
    /\ data' = [columns |-> data.columns \cup {"coal", "opp"},
                rows    |-> [n \in 1..Len(data.rows) |->
                                [data.rows[n] EXCEPT !.c = TotalCells(@)]]]
    /\ pc' = "dedup"
    /\ UNCHANGED <<voting, reserves, SAAR_RATIO_FROM_GANTZ, data_analysis,
                   results, party>>

\* ------------------------------------ line 72: index.duplicated(keep='first')
\* Mutant: keep='last'.
Duplicated_KeepLast(rows, n) ==
    \E m \in (n + 1)..Len(rows) : rows[m].key = rows[n].key

\* duplicated(keep='first')[n]: the key of row n occurs in an earlier row.
Duplicated(rows, n) == \E m \in 1..(n - 1) : rows[m].key = rows[n].key

RECURSIVE KeepFirst(_, _)
KeepFirst(rows, n) ==
    IF n > Len(rows) THEN <<>>
    ELSE (IF Duplicated(rows, n) THEN <<>> ELSE <<rows[n]>>)
         \o KeepFirst(rows, n + 1)

Dedup ==
    /\ pc = "dedup"
    /\ data' = [data EXCEPT !.rows = KeepFirst(@, 1)]
    /\ pc' = "mask"
    /\ UNCHANGED <<voting, reserves, SAAR_RATIO_FROM_GANTZ, data_analysis,
                   results, party>>

\* ------------------------------------------------- lines 75-77: the cleaner
\* The three columns of the boolean mask and of dropna(subset=...).
Critical == {"coal", "opp", "reserve_days"}

\* Mutant: the mask tests >= 0.
MaskCells_NonNegative(c) ==
    [col \in DOMAIN c |->
        IF col \in Critical /\ c[col] >= 0 THEN c[col] ELSE NaN]

\* Mutant: the mask blanks the failing critical cells only, as a row filter
\* would leave the other columns.
MaskCells_RowFilter(c) ==
    [col \in DOMAIN c |->
        IF col \in Critical /\ ~(c[col] > 0) THEN NaN ELSE c[col]]

\* data[data[[...]] > 0]: indexing with a boolean frame is DataFrame.where.
\* The mask has the three columns only; aligned to data, every other column
\* of the mask is False, so every other cell becomes NaN.  NaN > 0 is False.
MaskCells(c) ==
    [col \in DOMAIN c |->
        IF col \in Critical /\ c[col] > 0 THEN c[col] ELSE NaN]

Mask ==
    /\ pc = "mask"
    /\ Critical \subseteq data.columns
    /\ data_analysis' =
          [columns |-> data.columns,
           rows    |-> [n \in 1..Len(data.rows) |->
                           [data.rows[n] EXCEPT !.c = MaskCells(@)]]]
    /\ pc' = "dropna_rows"
    /\ UNCHANGED <<voting, reserves, SAAR_RATIO_FROM_GANTZ, data, results,
                   party>>

\* dropna(subset=[...]) keeps a row when none of the subset's cells is NaN.
HasNaN(row, cols) == \E col \in cols : row.c[col] = NaN

DropRows(rows) == SelectSeq(rows, LAMBDA row : ~HasNaN(row, Critical))

DropnaRows ==
    /\ pc = "dropna_rows"
    /\ data_analysis' = [data_analysis EXCEPT !.rows = DropRows(@)]
    /\ pc' = "dropna_cols"
    /\ UNCHANGED <<voting, reserves, SAAR_RATIO_FROM_GANTZ, data, results,
                   party>>

\* dropna(axis=1) keeps a column when none of its cells is NaN (every column
\* of a table with no rows is kept).
KeptColumns(t) ==
    { col \in t.columns : \A n \in 1..Len(t.rows) : t.rows[n].c[col] # NaN }

Restrict(c, cols) == [col \in cols |-> c[col]]

DropnaCols ==
    /\ pc = "dropna_cols"
    /\ LET kept == KeptColumns(data_analysis)
       IN  data_analysis' =
              [columns |-> kept,
               rows    |-> [n \in 1..Len(data_analysis.rows) |->
                               [data_analysis.rows[n] EXCEPT
                                   !.c = Restrict(@, kept)]]]
    /\ pc' = "metrics"
    /\ UNCHANGED <<voting, reserves, SAAR_RATIO_FROM_GANTZ, data, results,
                   party>>

\* ------------------------------------------ lines 81-92: metrics and ratios
\* A float quotient num/den.  up: the binary64 value lies just above num/den
\* (see OneMinus).  0/0 is NaN.
Frac(n, d) == [num |-> n, den |-> d, up |-> FALSE]

NaNFrac == Frac(0, 0)

\* 1 - x in binary64.  The difference is exact or rounds without crossing a
\* bin edge, with one exception among the quotients with a denominator below 400:
\* 1 - 0.95 = 0.050000000000000044 > 0.05, the float just above 1/20, which
\* pd.cut therefore puts in (0.05, 0.1].
OneMinus(x) ==
    [num |-> x.den - x.num, den |-> x.den,
     up  |-> (x.den - x.num) * 20 = x.den /\ x.den > 0]

\* data['ksherim'] aligned on the index of data_analysis (unique after line 72).
Lookup(t, key, col) ==
    LET n == CHOOSE m \in 1..Len(t.rows) : t.rows[m].key = key
    IN  t.rows[n].c[col]

MetricCells(row) ==
    LET c     == row.c
        ratio == Frac(c["coal"], c["coal"] + c["opp"])
        inv   == OneMinus(ratio)
    IN  ( "kosher" :> Lookup(data, row.key, "ksherim") @@
          "coal_reserves_ratio" :> Frac(c["reserve_days"] * SplitScale, c["coal"]) @@
          "opp_reserves_ratio" :> Frac(c["reserve_days"] * SplitScale, c["opp"]) @@
          "coal_ratio" :> ratio @@
          "opp_ratio" :> inv @@
          "coal_reserves_times_ratio" :>
              Frac(ratio.num * c["reserve_days"], ratio.den) @@
          "opp_reserves_times_ratio" :>
              Frac(inv.num * c["reserve_days"], inv.den) ) @@ c

MetricColumns ==
    {"kosher", "coal_reserves_ratio", "opp_reserves_ratio", "coal_ratio",
     "opp_ratio", "coal_reserves_times_ratio", "opp_reserves_times_ratio"}

Metrics ==
    /\ pc = "metrics"
    /\ Critical \subseteq data_analysis.columns
    /\ data_analysis' =
          [columns |-> data_analysis.columns \cup MetricColumns,
           rows    |-> [n \in 1..Len(data_analysis.rows) |->
                           [data_analysis.rows[n] EXCEPT !.c = MetricCells(
                               data_analysis.rows[n])]]]
    /\ pc' = "cut"
    /\ UNCHANGED <<voting, reserves, SAAR_RATIO_FROM_GANTZ, data, results,
                   party>>

\* --------------------------------------------- lines 98-123: per-bloc loop
\* Mutant: both passes write the same cumulative reserve-days column.
ReservesCol_Shared(p) == "coal_reserves"

RatioCol(p) == IF p = "coal" THEN "coal_ratio" ELSE "opp_ratio"
CutCol(p) == IF p = "coal" THEN "coal_cut" ELSE "opp_cut"
ReservesCol(p) == IF p = "coal" THEN "coal_reserves" ELSE "opp_reserves"
VotesCumsumCol(p) == IF p = "coal" THEN "coal_votes_cumsum" ELSE "opp_votes_cumsum"

\* Bin labels are written in hundredths: np.round(..., 2) of 0, 0.05, ...
LabelScale == 100
\* step=0.05, in hundredths.
BinStep == 5
\* np.arange(0, 1, step=0.05): the 20 labels 0.00 .. 0.95.
Labels == { BinStep * i : i \in 0..(LabelScale \div BinStep - 1) }

\* x > e/100 for the float x and the bin edge e.  A quotient of integers
\* that equals an edge in exact arithmetic never exceeds the float edge
\* i * 0.05; a float marked up does.
Above(x, e) ==
    \/ x.num * LabelScale > e * x.den
    \/ x.num * LabelScale = e * x.den /\ x.up

\* pd.cut(x, bins, labels): the edges np.arange(0, 1.05, step=0.05) are
\* 0.00 .. 1.00; right=True, include_lowest=False, so the bins are
\* (e, e + 0.05], labelled by their left edge e; a value in none of them
\* (x <= 0, x > 1, NaN) gets NaN.
Cut(x) ==
    LET hit == { e \in Labels : Above(x, e) /\ ~Above(x, e + BinStep) }
    IN  IF x.den > 0 /\ hit # {} THEN CHOOSE e \in hit : TRUE ELSE NaN

CutStep ==
    /\ pc = "cut"
    /\ RatioCol(party) \in data_analysis.columns
    /\ data_analysis' =
          [columns |-> data_analysis.columns \cup {CutCol(party)},
           rows    |-> [n \in 1..Len(data_analysis.rows) |->
                           [data_analysis.rows[n] EXCEPT
                               !.c = (CutCol(party) :> Cut(@[RatioCol(party)]))
                                     @@ @]]]
    /\ pc' = "sort"
    /\ UNCHANGED <<voting, reserves, SAAR_RATIO_FROM_GANTZ, data, results,
                   party>>

\* sort_values(by=..., inplace=True): ascending, NaN last (na_position
\* default).  kind is the default 'quicksort', which is not stable: rows
\* with the same label may come out in any order.
SortKey(label) == IF label = NaN THEN LabelScale ELSE label

\* Mutant: the rows are left in any order.
IsSorted_Unsorted(rows, col) == TRUE

IsSorted(rows, col) ==
    \A i \in 1..(Len(rows) - 1) :
        SortKey(rows[i].c[col]) <= SortKey(rows[i + 1].c[col])

Orderings(n) ==
    { f \in [1..n -> 1..n] : \A i, j \in 1..n : f[i] = f[j] => i = j }

Sort ==
    /\ pc = "sort"
    /\ \E f \in Orderings(Len(data_analysis.rows)) :
          LET sorted == [n \in 1..Len(data_analysis.rows) |->
                            data_analysis.rows[f[n]]]
          IN  /\ IsSorted(sorted, CutCol(party))
              /\ data_analysis' = [data_analysis EXCEPT !.rows = sorted]
    /\ pc' = "cumsum"
    /\ UNCHANGED <<voting, reserves, SAAR_RATIO_FROM_GANTZ, data, results,
                   party>>

\* Series.cumsum(): the running sum at row n; a NaN cell stays NaN and is
\* skipped by the sum.
RECURSIVE RunningSum(_, _, _)
RunningSum(rows, col, n) ==
    IF n = 0 THEN 0
    ELSE (IF rows[n].c[col] = NaN THEN 0 ELSE rows[n].c[col])
         + RunningSum(rows, col, n - 1)

CumsumAt(rows, col, n) ==
    IF rows[n].c[col] = NaN THEN NaN ELSE RunningSum(rows, col, n)

Cumsum ==
    /\ pc = "cumsum"
    /\ {"reserve_days", "kosher"} \subseteq data_analysis.columns
    /\ LET rows == data_analysis.rows
       IN  data_analysis' =
              [columns |-> data_analysis.columns
                           \cup {ReservesCol(party), VotesCumsumCol(party)},
               rows    |-> [n \in 1..Len(rows) |->
                              [rows[n] EXCEPT
                                 !.c = (ReservesCol(party) :>
                                           CumsumAt(rows, "reserve_days", n) @@
                                        VotesCumsumCol(party) :>
                                           CumsumAt(rows, "kosher", n)) @@ @]]]
    /\ pc' = "groupby"
    /\ UNCHANGED <<voting, reserves, SAAR_RATIO_FROM_GANTZ, data, results,
                   party>>

\* The largest member of a non-empty set of integers.
Max(S) == CHOOSE x \in S : \A y \in S : y <= x

\* Mutant: agg("min").
GroupMax_Min(rows, by, col) ==
    [label \in Labels |->
        LET cells == { rows[n].c[col] : n \in { m \in 1..Len(rows) :
                          rows[m].c[by] = label /\ rows[m].c[col] # NaN } }
        IN  IF cells = {} THEN NaNFrac
            ELSE Frac(CHOOSE x \in cells : \A y \in cells : x <= y, 1)]

\* groupby(cut, observed=False).agg("max"): one row per category, the max
\* of the non-NaN cells of the group, NaN for a group without any.
GroupMax(rows, by, col) ==
    [label \in Labels |->
        LET cells == { rows[n].c[col] : n \in { m \in 1..Len(rows) :
                          rows[m].c[by] = label /\ rows[m].c[col] # NaN } }
        IN  IF cells = {} THEN NaNFrac ELSE Frac(Max(cells), 1)]

Groupby ==
    /\ pc = "groupby"
    /\ results' = (party :> GroupMax(data_analysis.rows, CutCol(party),
                                     ReservesCol(party))) @@ results
    /\ pc' = "normalize"
    /\ UNCHANGED <<voting, reserves, SAAR_RATIO_FROM_GANTZ, data,
                   data_analysis, party>>

\* Float division x / y of two results cells; NaN if either is NaN.
IsNaN(x) == x.num = 0 /\ x.den = 0

Div(x, y) ==
    IF IsNaN(x) \/ IsNaN(y) THEN NaNFrac ELSE Frac(x.num * y.den, x.den * y.num)

\* results.loc[0.95, party]
RefLabel == 95

\* results[party] /= results.loc[0.95, party]; then the loop moves on.
Normalize ==
    /\ pc = "normalize"
    /\ results' = [results EXCEPT ![party] =
                      [label \in Labels |-> Div(@[label], @[RefLabel])]]
    /\ IF party = "coal"
       THEN party' = "opp" /\ pc' = "cut"
       ELSE party' = party /\ pc' = "done"
    /\ UNCHANGED <<voting, reserves, SAAR_RATIO_FROM_GANTZ, data,
                   data_analysis>>

Next ==
    \/ Merge
    \/ Split
    \/ BlocTotals
    \/ Dedup
    \/ Mask
    \/ DropnaRows
    \/ DropnaCols
    \/ Metrics
    \/ CutStep
    \/ Sort
    \/ Cumsum
    \/ Groupby
    \/ Normalize

Spec == Init /\ [][Next]_vars

\* ===================================================================
\* Properties
\* ===================================================================
\* The statements of the script in execution order; the per-bloc loop body
\* is cut .. normalize.
Steps ==
    <<"merge", "split", "totals", "dedup", "mask", "dropna_rows",
      "dropna_cols", "metrics", "cut", "sort", "cumsum", "groupby",
      "normalize", "done">>

Pos(step) == CHOOSE i \in 1..Len(Steps) : Steps[i] = step

\* Statement `step` (one before the loop) has been executed.
Past(step) == Pos(pc) > Pos(step)

\* Statement `step` of the loop body has been executed in bloc p's pass.
PastIn(p, step) ==
    \/ p = party /\ Past(step)
    \/ p = "coal" /\ party = "opp"

Blocs == {"coal", "opp"}

\* The value of a fraction cell, compared with a label in hundredths.
AtLeast(x, e) == x.num * LabelScale >= e * x.den
Below(x, e) == x.num * LabelScale < e * x.den

\* ------------------------------------------------------------------- C1
\* C1: bin assignment is total and a ratio is put in the bin labelled by
\* the largest edge not above it: label <= ratio < label + 0.05 (the last
\* bin also holds 1.0), so a ratio on an edge gets that edge as its label
\* (0.95 -> 0.95, 0.8 -> 0.80, 0.2 -> 0.20).
C1_BinAssignment ==
    \A p \in Blocs :
        PastIn(p, "cut") =>
            \A n \in 1..Len(data_analysis.rows) :
                LET c == data_analysis.rows[n].c
                    x == c[RatioCol(p)]
                    label == c[CutCol(p)]
                IN  /\ label \in Labels
                    /\ AtLeast(x, label)
                    /\ Below(x, label + BinStep) \/ (label = RefLabel /\ x.num = x.den)

\* ------------------------------------------------------------------- C2
\* Some row of the analysis table has bloc p's cut label 0.95.
RefBinOccupied(p) ==
    \E n \in 1..Len(data_analysis.rows) :
        data_analysis.rows[n].c[CutCol(p)] = RefLabel

\* Bloc p's pass has completed its normalisation statement.
Normalized(p) == (p = "coal" /\ party = "opp") \/ (p = "opp" /\ pc = "done")

\* C2: the normalisation of a bloc never completes when no surviving
\* locality is in the bin labelled 0.95 (the run fails instead of producing
\* a NaN column).
C2_EmptyReferenceBinIsFatal ==
    \A p \in Blocs : Normalized(p) => RefBinOccupied(p)

\* ------------------------------------------------------------------- C3
\* A results cell equal to exactly 1.0.
IsOne(x) == x.den > 0 /\ x.num = x.den

\* C3: whenever the pipeline completes, the normalised value at bin 0.95 is
\* exactly 1.0 in the coalition column and in the opposition column.
C3_ReferenceBinIsOne ==
    pc = "done" => \A p \in Blocs : IsOne(results[p][RefLabel])

\* ------------------------------------------------------------------- C4
\* C4: every row that survives the cleaner has coal > 0, opp > 0 and
\* reserve_days > 0, none of them missing, a positive ratio denominator,
\* and a locality with no reserves row is not in the analysis table.
C4_SurvivorsPositive ==
    Past("dropna_rows") =>
        \A n \in 1..Len(data_analysis.rows) :
            LET row == data_analysis.rows[n]
            IN  /\ Critical \subseteq DOMAIN row.c
                /\ \A col \in Critical : row.c[col] # NaN /\ row.c[col] > 0
                /\ row.c["coal"] + row.c["opp"] > 0
                /\ RightMatches(row.key, 1) # <<>>

\* A locality of the joined table that is left out of the analysis table.
Excluded(key) ==
    \A n \in 1..Len(data_analysis.rows) : data_analysis.rows[n].key # key

C4_Witness ==
    /\ pc = "metrics"
    /\ Len(data_analysis.rows) >= 1
    /\ \E n \in 1..Len(data.rows) :
          /\ data.rows[n].c["reserve_days"] = NaN
          /\ data.rows[n].c["coal"] > 0
          /\ data.rows[n].c["opp"] > 0
          /\ Excluded(data.rows[n].key)

\* ------------------------------------------------------------------- C5
\* Column col of the joined table has its missing values only in rows that
\* are left out of the analysis table.
MissingOnlyInExcluded(col) ==
    \A n \in 1..Len(data.rows) :
        data.rows[n].c[col] = NaN => Excluded(data.rows[n].key)

\* C5 as stated: a column other than the three critical ones whose missing
\* values are all in excluded rows is present in the cleaned table, with
\* the surviving rows' values unchanged.
C5_ColumnPreserved ==
    Past("dropna_cols") =>
        \A col \in data.columns \ Critical :
            MissingOnlyInExcluded(col) =>
                /\ col \in data_analysis.columns
                /\ \A n \in 1..Len(data_analysis.rows) :
                      data_analysis.rows[n].c[col] =
                          Lookup(data, data_analysis.rows[n].key, col)

\* C5 amended: when a row survives, the cleaned table holds of the joined
\* table's columns exactly the three critical ones, whatever the missing
\* values of the others, and the surviving rows' critical cells are those
\* of the joined table; when no row survives every column is kept.
C5_OnlyCriticalColumnsKept ==
    Past("dropna_cols") =>
        IF data_analysis.rows = <<>>
        THEN data.columns \subseteq data_analysis.columns
        ELSE /\ data_analysis.columns \cap data.columns = Critical
             /\ \A n \in 1..Len(data_analysis.rows) : \A col \in Critical :
                   data_analysis.rows[n].c[col] =
                       Lookup(data, data_analysis.rows[n].key, col)

\* A survivor, an excluded row, and a column whose only missing value is in
\* the excluded row.
C5_Witness ==
    /\ pc = "metrics"
    /\ Len(data_analysis.rows) >= 1
    /\ \E n \in 1..Len(data.rows) :
          /\ data.rows[n].c["mrz"] = NaN
          /\ Excluded(data.rows[n].key)
    /\ MissingOnlyInExcluded("mrz")
    /\ "mrz" \notin data_analysis.columns

FirstVoteRow(k) ==
    voting[CHOOSE i \in 1..Len(voting) :
              /\ voting[i].key = k
              /\ \A j \in 1..(i - 1) : voting[j].key # k]

FirstReserveDays(k) ==
    LET m == RightMatches(k, 1)
    IN  IF m = <<>> THEN NaN ELSE reserves[m[1]].reserve_days

\* C7: after the join and the de-duplication every key of the vote table is
\* the key of exactly one row, no other key occurs, and the row kept is the
\* first of its key in join order: the first vote row of the key with the
\* first reserves row of the key.
C7_OneRowPerKeyFirstKept ==
    Past("dedup") =>
        /\ { data.rows[n].key : n \in 1..Len(data.rows) }
              = { voting[i].key : i \in 1..Len(voting) }
        /\ \A n, m \in 1..Len(data.rows) :
              data.rows[n].key = data.rows[m].key => n = m
        /\ \A n \in 1..Len(data.rows) :
              LET c == data.rows[n].c
                  k == data.rows[n].key
              IN  /\ c["reserve_days"] = FirstReserveDays(k)
                  /\ \A col \in VoteColumns \ {"kn"} :
                        c[col] = FirstVoteRow(k).c[col]

\* Both tables repeat a key with different contents, and rows were dropped.
C7_Witness ==
    /\ pc = "mask"
    /\ Len(data.rows) < Len(JoinIndexers(1))
    /\ \E i, j \in 1..Len(voting) :
          i < j /\ voting[i].key = voting[j].key /\ voting[i].c # voting[j].c
    /\ \E i, j \in 1..Len(reserves) :
          /\ i < j
          /\ reserves[i].key = reserves[j].key
          /\ reserves[i].reserve_days # reserves[j].reserve_days
          /\ reserves[i].key = voting[1].key

\* ------------------------------------------------------------------- C8
\* The rows are in the order of bloc p's sort and carry p's cumulative
\* columns: from p's cumsum until the next sort_values.
InOrderOf(p) ==
    \/ p = party /\ Past("cumsum")
    \/ p = "coal" /\ party = "opp" /\ pc \in {"cut", "sort"}

\* C8: along the row order of a bloc's sort, that bloc's bin labels, its
\* cumulative reserve days and its cumulative valid votes are non-decreasing.
C8_CumulativeMonotonic ==
    \A p \in Blocs :
        InOrderOf(p) =>
            \A n \in 1..(Len(data_analysis.rows) - 1) :
                LET a == data_analysis.rows[n].c
                    b == data_analysis.rows[n + 1].c
                IN  /\ a[CutCol(p)] # NaN /\ b[CutCol(p)] # NaN
                    /\ a[CutCol(p)] <= b[CutCol(p)]
                    /\ a[ReservesCol(p)] <= b[ReservesCol(p)]
                    /\ a[VotesCumsumCol(p)] <= b[VotesCumsumCol(p)]

\* The opposition's sort has reversed the coalition's order of two rows.
C8_Witness ==
    /\ pc = "groupby"
    /\ party = "opp"
    /\ Len(data_analysis.rows) = 2
    /\ data_analysis.rows[1].c["coal_cut"] > data_analysis.rows[2].c["coal_cut"]
    /\ data_analysis.rows[1].c["opp_cut"] < data_analysis.rows[2].c["opp_cut"]
    /\ data_analysis.rows[1].c["opp_reserves"] < data_analysis.rows[2].c["opp_reserves"]

\* ------------------------------------------------------------------- C9
\* The rows of the analysis table with bloc p's label equal to / at most e.
RowsAt(p, e) ==
    { n \in 1..Len(data_analysis.rows) : data_analysis.rows[n].c[CutCol(p)] = e }

RowsUpTo(p, e) ==
    { n \in 1..Len(data_analysis.rows) :
        /\ data_analysis.rows[n].c[CutCol(p)] # NaN
        /\ data_analysis.rows[n].c[CutCol(p)] <= e }

RECURSIVE SumDays(_)
SumDays(ns) ==
    IF ns = {} THEN 0
    ELSE LET n == CHOOSE m \in ns : TRUE
         IN  data_analysis.rows[n].c["reserve_days"] + SumDays(ns \ {n})

\* C9: for each bin with a locality, the per-bin maximum is the running
\* total at the last row of the bin in the sorted order, and it is the sum
\* of reserve_days over the rows with a label up to that bin (an expression
\* in which the order of the rows of a bin does not occur).
C9_BinMaxIsTotalUpToBin ==
    pc = "normalize" =>
        \A e \in Labels :
            RowsAt(party, e) # {} =>
                /\ results[party][e] = Frac(SumDays(RowsUpTo(party, e)), 1)
                /\ data_analysis.rows[Max(RowsAt(party, e))].c[ReservesCol(party)]
                      = SumDays(RowsUpTo(party, e))

\* Two localities with different reserve_days share a bin.
C9_Witness ==
    /\ pc = "normalize"
    /\ \E e \in Labels : \E n, m \in RowsAt(party, e) :
          /\ n < m
          /\ data_analysis.rows[n].c["reserve_days"]
                > data_analysis.rows[m].c["reserve_days"]

\* ------------------------------------------------------------------ C10
\* The coalition cells of the locality with the given key.
CoalCells(t, key) ==
    <<Lookup(t, key, "coal_cut"), Lookup(t, key, "coal_reserves")>>

KeysOf(t) == { t.rows[n].key : n \in 1..Len(t.rows) }

\* C10: every step of the opposition pass leaves the coalition column of
\* the result table as it is, keeps the set of localities, and leaves each
\* locality's coalition bin label and coalition cumulative reserve days as
\* the coalition pass set them.
C10_OppositionPassKeepsCoalition ==
    [][ party = "opp" =>
          /\ results'["coal"] = results["coal"]
          /\ KeysOf(data_analysis') = KeysOf(data_analysis)
          /\ Len(data_analysis'.rows) = Len(data_analysis.rows)
          /\ \A k \in KeysOf(data_analysis) :
                CoalCells(data_analysis', k) = CoalCells(data_analysis, k) ]_vars

\* After the opposition pass the coalition cumulative column decreases
\* along the row order.
C10_Witness ==
    /\ pc = "done"
    /\ \E n \in 1..(Len(data_analysis.rows) - 1) :
          data_analysis.rows[n].c["coal_reserves"]
              > data_analysis.rows[n + 1].c["coal_reserves"]
    /\ IsOne(results["coal"][RefLabel])

====
